---- MODULE Spec2Model ----
(***************************************************************************)
(* Model of the marketplace backend: the in-memory record store            *)
(* (MemStorage) and the HTTP route handlers (registerRoutes) that sit on   *)
(* top of it.                                                              *)
(*                                                                         *)
(* A stored record is a JavaScript object: a function from field names to  *)
(* values whose domain is the set of fields the object actually has.  A    *)
(* collection is a Map: a function from the numeric keys it holds to       *)
(* records.  One action is one HTTP request handled to completion; `last`  *)
(* holds the request just handled and the response it got.                 *)
(*                                                                         *)
(* Text fields are sequences of character codes, so that toLowerCase is    *)
(* computed and not assumed.  A request's caller is the key its session    *)
(* deserializes to (0: no authenticated session).  Timestamps (createdAt,  *)
(* lastActive) and the free-text fields take no part in any decision of    *)
(* the handlers modelled here and are left out of the records, but for the *)
(* createdAt of a message, which orders a conversation.  `assigned` is a   *)
(* history variable: the ids each create operation has handed out.         *)
(* `calls` holds the createReview calls that have begun and are suspended  *)
(* at an await or have returned; a request handled to completion leaves it *)
(* alone.                                                                  *)
(***************************************************************************)
EXTENDS Integers, Sequences, FiniteSets, TLC

VARIABLES users, serviceCategories, services, bookings, reviews, messages,
          currentUserId, currentServiceCategoryId, currentServiceId,
          currentBookingId, currentReviewId, currentMessageId, assigned, last,
          calls

vars == <<users, serviceCategories, services, bookings, reviews, messages,
          currentUserId, currentServiceCategoryId, currentServiceId,
          currentBookingId, currentReviewId, currentMessageId, assigned, last,
          calls>>

\* ------------------------------------------------------------------ bounds

\* The accounts specification registers while currentUserId <= MaxAccounts.
MaxAccounts == 2

\* The booking specification: the ids its creating requests may reach.
MaxUsers == 3
MaxServices == 1
MaxBookings == 1
MaxReviews == 2

\* The store specification: how many ids of each kind its creating requests
\* may hand out.
MaxCreated == 2

\* The concurrent specification: how many createReview calls may begin.
MaxCalls == 2

\* ----------------------------------------------------- JavaScript values

\* The value of a field the object does not have, for text fields.
Undefined == "<undefined>"

\* No session, no such record: the numeric stand-in for undefined.
None == 0

\* obj.f for a text field
Text(obj, f) == IF f \in DOMAIN obj THEN obj[f] ELSE Undefined

\* obj.f for a numeric field
Num(obj, f) == IF f \in DOMAIN obj THEN obj[f] ELSE None

\* { ...a, ...b }
Spread(a, b) ==
  [f \in DOMAIN a \cup DOMAIN b |-> IF f \in DOMAIN b THEN b[f] ELSE a[f]]

\* What a zod object schema keeps of a body, the schema's own keys, and
\* what an object literal { id: user.id, ... } picks of a record (JSON
\* leaves an undefined field out): the fields named that are there.
Strip(body, keys) == [f \in DOMAIN body \cap keys |-> body[f]]

\* map.set(k, v)
MapSet(m, k, v) == [x \in DOMAIN m \cup {k} |-> IF x = k THEN v ELSE m[x]]

\* map.delete(k)
MapDelete(m, k) == [x \in DOMAIN m \ {k} |-> m[x]]

\* The empty object, the empty Map.
Empty == <<>>

\* String.prototype.toLowerCase on character codes: A-Z (65..90) to a-z.
toLowerCase(s) ==
  [i \in DOMAIN s |-> IF s[i] >= 65 /\ s[i] <= 90 THEN s[i] + 32 ELSE s[i]]

\* ------------------------------------------------------------- responses

\* res.status(code).json(...): the operation answered, its status, and the
\* message of an error body ("" for a body that is a record or a list)
Response(op, code, msg) == [op |-> op, code |-> code, msg |-> msg]

\* res.status(code).json(body) with a body that is a user record, a list of
\* user records or a list of messages: the body is kept
Json(op, code, body) == [op |-> op, code |-> code, msg |-> "", json |-> body]

\* const { password, ...info } = user, with nothing taken out
OmitNothing(obj, keys) == obj

\* const { password, ...info } = user
Omit(obj, keys) == [f \in DOMAIN obj \ keys |-> obj[f]]

\* req.isAuthenticated(): the session deserializes to a stored user.
isAuthenticated(caller) == caller \in DOMAIN users

\* req.user
currentUser(caller) == users[caller]

\* currentUser.role !== 'admin', for an authenticated caller
notAdmin(caller) == Text(currentUser(caller), "role") # "admin"

\* isAdmin middleware
isAdmin(caller) == isAuthenticated(caller) /\ ~notAdmin(caller)

\* ------------------------------------------------------------ the store

categories ==
  <<"Translator", "Security", "Tour Guide", "Driver", "Chef", "Childcare">>

Init ==
  /\ users = Empty
  /\ serviceCategories =
       [i \in DOMAIN categories |-> [id |-> i, name |-> categories[i]]]
  /\ services = Empty
  /\ bookings = Empty
  /\ reviews = Empty
  /\ messages = Empty
  /\ currentUserId = 1
  /\ currentServiceCategoryId = Len(categories) + 1
  /\ currentServiceId = 1
  /\ currentBookingId = 1
  /\ currentReviewId = 1
  /\ currentMessageId = 1
  /\ assigned = [users |-> {}, serviceCategories |-> DOMAIN categories,
                 services |-> {}, bookings |-> {}, reviews |-> {},
                 messages |-> {}]
  /\ calls = Empty
  /\ last = Response("init", 0, "")

\* getUserByUsername comparing the names as they are written
getUserByUsernameExact(username) ==
  {k \in DOMAIN users : users[k].username = username}

\* getUserByUsername: the stored users with that name, ignoring case (the
\* handlers only ask whether there is one)
getUserByUsername(username) ==
  {k \in DOMAIN users :
     toLowerCase(users[k].username) = toLowerCase(username)}

\* getUserByEmail
getUserByEmail(email) ==
  {k \in DOMAIN users : toLowerCase(users[k].email) = toLowerCase(email)}

\* createUser
createUser(insertUser) ==
  /\ users' = MapSet(users, currentUserId,
                     Spread(insertUser, [id |-> currentUserId]))
  /\ currentUserId' = currentUserId + 1
  /\ assigned' = [assigned EXCEPT !.users = @ \cup {currentUserId}]

\* updateUser storing the supplied fields alone
updateUserReplace(id, userData) ==
  IF id \in DOMAIN users
    THEN MapSet(users, id, Spread([id |-> id], userData))
    ELSE users

\* updateUser: the Map after it (unchanged for an id it does not hold)
updateUser(id, userData) ==
  IF id \in DOMAIN users
    THEN MapSet(users, id, Spread(users[id], userData))
    ELSE users

\* createServiceCategory
createServiceCategory(category) ==
  /\ serviceCategories' =
       MapSet(serviceCategories, currentServiceCategoryId,
              Spread(category, [id |-> currentServiceCategoryId]))
  /\ currentServiceCategoryId' = currentServiceCategoryId + 1
  /\ assigned' = [assigned EXCEPT
                    !.serviceCategories = @ \cup {currentServiceCategoryId}]

\* updateServiceCategory, for an id the Map holds
updateServiceCategory(id, categoryData) ==
  serviceCategories' =
    MapSet(serviceCategories, id, Spread(serviceCategories[id], categoryData))

\* deleteServiceCategory
deleteServiceCategory(id) ==
  serviceCategories' = MapDelete(serviceCategories, id)

\* createService taking the id from the number of services stored
createServiceBySize(service) ==
  LET id == Cardinality(DOMAIN services) + 1 IN
  /\ services' = MapSet(services, id, Spread(service, [id |-> id]))
  /\ currentServiceId' = currentServiceId + 1
  /\ assigned' = [assigned EXCEPT !.services = @ \cup {id}]

\* createService
createService(service) ==
  /\ services' = MapSet(services, currentServiceId,
                        Spread(service, [id |-> currentServiceId]))
  /\ currentServiceId' = currentServiceId + 1
  /\ assigned' = [assigned EXCEPT !.services = @ \cup {currentServiceId}]

\* updateService, for an id the Map holds
updateService(id, serviceData) ==
  services' = MapSet(services, id, Spread(services[id], serviceData))

\* deleteService
deleteService(id) == services' = MapDelete(services, id)

\* createBooking
createBooking(booking) ==
  /\ bookings' = MapSet(bookings, currentBookingId,
                        Spread(booking, [id |-> currentBookingId]))
  /\ currentBookingId' = currentBookingId + 1
  /\ assigned' = [assigned EXCEPT !.bookings = @ \cup {currentBookingId}]

\* updateBooking, for an id the Map holds
updateBooking(id, bookingData) ==
  bookings' = MapSet(bookings, id, Spread(bookings[id], bookingData))

\* getReviewsByAssistantId, on a reviews Map
getReviewsByAssistantId(revs, assistantId) ==
  {k \in DOMAIN revs : revs[k].assistantId = assistantId}

\* assistantReviews.reduce((sum, r) => sum + r.rating, 0)
RECURSIVE SumRatings(_, _)
SumRatings(revs, keys) ==
  IF keys = {} THEN 0
  ELSE LET k == CHOOSE x \in keys : TRUE
       IN revs[k].rating + SumRatings(revs, keys \ {k})

RECURSIVE GCD(_, _)
GCD(a, b) == IF b = 0 THEN a ELSE GCD(b, a % b)

\* sum / n, the quotient of two positive integers as the number it is: the
\* fraction in lowest terms
Quotient(sum, n) == LET g == GCD(sum, n) IN <<sum \div g, n \div g>>

\* createReview with the average taken as a whole number
createReviewWholeAverage(review) ==
  LET revs == MapSet(reviews, currentReviewId,
                     Spread(review, [id |-> currentReviewId]))
      assistantReviews == getReviewsByAssistantId(revs, review.assistantId)
      avgRating == <<SumRatings(revs, assistantReviews)
                       \div Cardinality(assistantReviews), 1>>
  IN /\ reviews' = revs
     /\ currentReviewId' = currentReviewId + 1
     /\ assigned' = [assigned EXCEPT !.reviews = @ \cup {currentReviewId}]
     /\ users' = updateUser(review.assistantId, [avgRating |-> avgRating])

\* createReview: the insert, then the assistant's average over all the
\* reviews stored for that assistant, written with updateUser
createReview(review) ==
  LET revs == MapSet(reviews, currentReviewId,
                     Spread(review, [id |-> currentReviewId]))
      assistantReviews == getReviewsByAssistantId(revs, review.assistantId)
      avgRating == Quotient(SumRatings(revs, assistantReviews),
                            Cardinality(assistantReviews))
  IN /\ reviews' = revs
     /\ currentReviewId' = currentReviewId + 1
     /\ assigned' = [assigned EXCEPT !.reviews = @ \cup {currentReviewId}]
     /\ users' = updateUser(review.assistantId, [avgRating |-> avgRating])

\* createReview, call p, from its start to its first await: the id is
\* taken, the review is stored, and getReviewsByAssistantId, whose body runs
\* when it is called, has filtered the reviews stored by then
createReviewCall(p, review) ==
  LET revs == MapSet(reviews, currentReviewId,
                     Spread(review, [id |-> currentReviewId]))
  IN /\ p \notin DOMAIN calls
     /\ reviews' = revs
     /\ currentReviewId' = currentReviewId + 1
     /\ assigned' = [assigned EXCEPT !.reviews = @ \cup {currentReviewId}]
     /\ calls' = MapSet(calls, p,
                        [pc |-> "reviews", review |-> review,
                         assistantReviews |->
                           getReviewsByAssistantId(revs, review.assistantId)])
     /\ UNCHANGED <<users, serviceCategories, services, bookings, messages,
                    currentUserId, currentServiceCategoryId, currentServiceId,
                    currentBookingId, currentMessageId, last>>

\* createReview, call p, from its first await to its second: the average of
\* the reviews it was handed is taken and updateUser, whose body runs when
\* it is called, has stored it
createReviewResume(p) ==
  LET call == calls[p]
      avgRating == Quotient(SumRatings(reviews, call.assistantReviews),
                            Cardinality(call.assistantReviews))
  IN /\ call.pc = "reviews"
     /\ users' = updateUser(call.review.assistantId,
                            [avgRating |-> avgRating])
     /\ calls' = [calls EXCEPT ![p].pc = "updated"]
     /\ UNCHANGED <<serviceCategories, services, bookings, reviews, messages,
                    currentUserId, currentServiceCategoryId, currentServiceId,
                    currentBookingId, currentReviewId, currentMessageId,
                    assigned, last>>

\* createReview, call p, from its second await to its return
createReviewReturn(p) ==
  /\ calls[p].pc = "updated"
  /\ calls' = [calls EXCEPT ![p].pc = "returned"]
  /\ UNCHANGED <<users, serviceCategories, services, bookings, reviews,
                 messages, currentUserId, currentServiceCategoryId,
                 currentServiceId, currentBookingId, currentReviewId,
                 currentMessageId, assigned, last>>

\* createMessage, the clock (new Date()) reading `now`
createMessage(message, now) ==
  /\ messages' = MapSet(messages, currentMessageId,
                        Spread(message, [id |-> currentMessageId,
                                         createdAt |-> now]))
  /\ currentMessageId' = currentMessageId + 1
  /\ assigned' = [assigned EXCEPT !.messages = @ \cup {currentMessageId}]

\* Array.from(map.values()): the records in the order their keys were
\* inserted, which is the order of the ids
RECURSIVE ArrayFrom(_)
ArrayFrom(map) ==
  IF DOMAIN map = {} THEN <<>>
  ELSE LET k == CHOOSE x \in DOMAIN map : \A y \in DOMAIN map : x >= y
       IN Append(ArrayFrom(MapDelete(map, k)), map[k])

\* The filter of getMessagesBetweenUsers.
isBetween(message, userId1, userId2) ==
  \/ message.senderId = userId1 /\ message.receiverId = userId2
  \/ message.senderId = userId2 /\ message.receiverId = userId1

\* Array.prototype.sort with the comparator a.createdAt - b.createdAt: a
\* stable sort, here by insertion.
RECURSIVE sortByCreatedAt(_)
sortByCreatedAt(array) ==
  IF array = <<>> THEN <<>>
  ELSE LET n == Len(array)
           sorted == sortByCreatedAt(SubSeq(array, 1, n - 1))
           t == array[n].createdAt
           before == SelectSeq(sorted, LAMBDA m : m.createdAt <= t)
           after == SelectSeq(sorted, LAMBDA m : m.createdAt > t)
       IN before \o <<array[n]>> \o after

\* getMessagesBetweenUsers with the sort left out
getMessagesBetweenUsersUnsorted(userId1, userId2) ==
  SelectSeq(ArrayFrom(messages),
            LAMBDA message : isBetween(message, userId1, userId2))

\* getMessagesBetweenUsers
getMessagesBetweenUsers(userId1, userId2) ==
  sortByCreatedAt(
    SelectSeq(ArrayFrom(messages),
              LAMBDA message : isBetween(message, userId1, userId2)))

\* Earth's radius in km
R == 6371

\* calculateDistance (haversine), in whole km, for two points of one
\* meridian (lon1 = lon2), as all the points of the model are: there dLon = 0,
\* a = sin^2(dLat/2) and c = |dLat| in radians, so the distance is
\* R * pi / 180 * |lat2 - lat1|; pi is taken as 355/113.
calculateDistance(lat1, lon1, lat2, lon2) ==
  LET Abs(x) == IF x < 0 THEN 0 - x ELSE x
  IN
  (R * 355 * Abs(lat2 - lat1)) \div (113 * 180)

\* location: null
Null == [null |-> TRUE]

\* user.location in a condition: an object is true, null and undefined false.
hasLocation(user) ==
  "location" \in DOMAIN user /\ "null" \notin DOMAIN user.location

\* The distance of a user from the center of a search.
distanceFrom(location, user) ==
  calculateDistance(location.lat, location.lng,
                    user.location.lat, user.location.lng)

\* Array.prototype.sort with the comparator distA - distB, on an array
\* whose users all have a location: a stable sort, here by insertion.
RECURSIVE sortByDistance(_, _)
sortByDistance(array, location) ==
  IF array = <<>> THEN <<>>
  ELSE LET n == Len(array)
           sorted == sortByDistance(SubSeq(array, 1, n - 1), location)
           d == distanceFrom(location, array[n])
           before == SelectSeq(sorted,
                       LAMBDA u : distanceFrom(location, u) <= d)
           after == SelectSeq(sorted,
                      LAMBDA u : distanceFrom(location, u) > d)
       IN before \o <<array[n]>> \o after

\* The filter of getNearbyAssistants.
isNearbyAssistant(user, location, radius) ==
  /\ Text(user, "role") = "assistant"
  /\ hasLocation(user)
  /\ distanceFrom(location, user) <= radius

\* getNearbyAssistants with the sort left out
getNearbyAssistantsUnsorted(location, radius) ==
  SelectSeq(ArrayFrom(users),
            LAMBDA user : isNearbyAssistant(user, location, radius))

\* getNearbyAssistants
getNearbyAssistants(location, radius) ==
  sortByDistance(
    SelectSeq(ArrayFrom(users),
              LAMBDA user : isNearbyAssistant(user, location, radius)),
    location)

\* ------------------------------------------------------- account routes

insertUserKeys == {"username", "email", "password", "role", "location"}

\* insertUserSchema.parse succeeds: the required columns are there.
insertUserValid(body) ==
  {"username", "email", "password"} \subseteq DOMAIN body

\* A handler that reads and answers: only the response changes.
ReadOnly(response) ==
  /\ UNCHANGED calls
  /\ last' = response
  /\ UNCHANGED <<users, serviceCategories, services, bookings, reviews,
                 messages, currentUserId, currentServiceCategoryId,
                 currentServiceId, currentBookingId, currentReviewId,
                 currentMessageId, assigned>>

\* POST /api/auth/register: the status and message of the response
RegisterResponse(body) ==
  CASE ~insertUserValid(body) -> <<400, "ZodError">>
    [] getUserByUsername(body.username) # {} ->
         <<400, "Username already taken">>
    [] getUserByEmail(body.email) # {} -> <<400, "Email already registered">>
    [] OTHER -> <<201, "">>

\* POST /api/auth/register
Register(body) ==
  LET r == RegisterResponse(body)
      newUser == Spread(Strip(body, insertUserKeys), [id |-> currentUserId])
  IN
  /\ UNCHANGED calls
  /\ last' = IF r[1] = 201
               THEN Json("register", 201,
                         Strip(newUser, {"id", "username", "email", "role"}))
               ELSE Response("register", r[1], r[2])
  /\ IF r[1] = 201
       THEN createUser(Strip(body, insertUserKeys))
       ELSE UNCHANGED <<users, currentUserId, assigned>>
  /\ UNCHANGED <<serviceCategories, services, bookings, reviews, messages,
                 currentServiceCategoryId, currentServiceId, currentBookingId,
                 currentReviewId, currentMessageId>>

\* GET /api/auth/me
GetMe(caller) ==
  ReadOnly(IF isAuthenticated(caller)
                 THEN Json("me", 200, Omit(currentUser(caller), {"password"}))
                 ELSE Response("me", 401, "Unauthorized"))

\* loginSchema.parse succeeds: a username of 3 characters or more and a
\* password of 6 or more
loginValid(body) ==
  /\ {"username", "password"} \subseteq DOMAIN body
  /\ Len(body.username) >= 3
  /\ Len(body.password) >= 6

\* POST /api/auth/login: LocalStrategy looks the user up with
\* getUserByUsername (the first stored user of that name) and compares the
\* password
Login(body) ==
  ReadOnly(
    IF ~loginValid(body) THEN Response("login", 400, "ZodError")
    ELSE LET found == getUserByUsername(body.username) IN
         IF found = {}
           THEN Response("login", 401, "Invalid username or password")
           ELSE LET user == users[CHOOSE k \in found :
                                    \A other \in found : k <= other]
                IN IF Text(user, "password") # body.password
                     THEN Response("login", 401,
                                   "Invalid username or password")
                     ELSE Json("login", 200,
                               Strip(user, {"id", "username", "email",
                                           "role"})))

\* GET /api/users/:id
GetUser(userId) ==
  ReadOnly(IF userId \notin DOMAIN users
                 THEN Response("getUser", 404, "User not found")
                 ELSE Json("getUser", 200, Omit(users[userId], {"password"})))

\* PATCH /api/users/:id: the status and message of the response
PatchUserResponse(caller, userId, body) ==
  CASE ~isAuthenticated(caller) -> <<401, "Unauthorized">>
    [] userId # currentUser(caller).id /\ notAdmin(caller) ->
         <<403, "Forbidden">>
    [] userId \notin DOMAIN users -> <<404, "User not found">>
    [] OTHER -> <<200, "">>

\* PATCH /api/users/:id
PatchUser(caller, userId, body) ==
  LET r == PatchUserResponse(caller, userId, body) IN
  /\ UNCHANGED calls
  /\ last' = IF r[1] = 200
               THEN Json("patchUser", 200,
                         Omit(updateUser(userId, body)[userId], {"password"}))
               ELSE Response("patchUser", r[1], r[2])
  /\ users' = IF r[1] = 200 THEN updateUser(userId, body) ELSE users
  /\ UNCHANGED <<serviceCategories, services, bookings, reviews, messages,
                 currentUserId, currentServiceCategoryId, currentServiceId,
                 currentBookingId, currentReviewId, currentMessageId,
                 assigned>>

\* GET /api/assistants/nearby?lat=&lng=&radius=
Nearby(query) ==
  /\ UNCHANGED calls
  /\ last' =
       IF ~({"lat", "lng"} \subseteq DOMAIN query)
         THEN Response("nearby", 400, "Location coordinates required")
         ELSE LET location == [lat |-> query.lat, lng |-> query.lng]
                  radiusInKm == IF "radius" \in DOMAIN query
                                  THEN query.radius ELSE 10
                  assistants == getNearbyAssistants(location, radiusInKm)
              IN Json("nearby", 200,
                      [i \in DOMAIN assistants |->
                         Omit(assistants[i], {"password"})])
  /\ UNCHANGED <<users, serviceCategories, services, bookings, reviews,
                 messages, currentUserId, currentServiceCategoryId,
                 currentServiceId, currentBookingId, currentReviewId,
                 currentMessageId, assigned>>

\* ------------------------------------------------------ category routes

\* insertServiceCategorySchema.parse succeeds
insertServiceCategoryValid(body) == "name" \in DOMAIN body

\* POST /api/service-categories
PostCategory(caller, body) ==
  LET r == CASE ~isAdmin(caller) -> <<403, "Forbidden">>
             [] ~insertServiceCategoryValid(body) -> <<400, "ZodError">>
             [] OTHER -> <<201, "">>
  IN /\ UNCHANGED calls
     /\ last' = Response("postCategory", r[1], r[2])
     /\ IF r[1] = 201
          THEN createServiceCategory(Strip(body, {"name"}))
          ELSE UNCHANGED <<serviceCategories, currentServiceCategoryId,
                           assigned>>
     /\ UNCHANGED <<users, services, bookings, reviews, messages,
                    currentUserId, currentServiceId, currentBookingId,
                    currentReviewId, currentMessageId>>

\* PATCH /api/service-categories/:id
PatchCategory(caller, categoryId, body) ==
  LET r == CASE ~isAdmin(caller) -> <<403, "Forbidden">>
             [] categoryId \notin DOMAIN serviceCategories ->
                  <<404, "Category not found">>
             [] OTHER -> <<200, "">>
  IN /\ UNCHANGED calls
     /\ last' = Response("patchCategory", r[1], r[2])
     /\ IF r[1] = 200
          THEN updateServiceCategory(categoryId, body)
          ELSE UNCHANGED serviceCategories
     /\ UNCHANGED <<users, services, bookings, reviews, messages,
                    currentUserId, currentServiceCategoryId, currentServiceId,
                    currentBookingId, currentReviewId, currentMessageId,
                    assigned>>

\* DELETE /api/service-categories/:id
DeleteCategory(caller, categoryId) ==
  LET r == CASE ~isAdmin(caller) -> <<403, "Forbidden">>
             [] categoryId \notin DOMAIN serviceCategories ->
                  <<404, "Category not found">>
             [] OTHER -> <<200, "Category deleted successfully">>
  IN /\ UNCHANGED calls
     /\ last' = Response("deleteCategory", r[1], r[2])
     /\ IF r[1] = 200
          THEN deleteServiceCategory(categoryId)
          ELSE UNCHANGED serviceCategories
     /\ UNCHANGED <<users, services, bookings, reviews, messages,
                    currentUserId, currentServiceCategoryId, currentServiceId,
                    currentBookingId, currentReviewId, currentMessageId,
                    assigned>>

\* ------------------------------------------------------- service routes

\* insertServiceSchema.parse succeeds
insertServiceValid(body) == {"assistantId", "categoryId"} \subseteq DOMAIN body

\* POST /api/services with any assistantId open to an assistant
PostServiceResponseAnyAssistant(caller, body) ==
  CASE ~isAuthenticated(caller) -> <<401, "Unauthorized">>
    [] Text(currentUser(caller), "role") \notin {"assistant", "admin"} ->
         <<403, "Forbidden - Only assistants can create services">>
    [] ~insertServiceValid(body) -> <<400, "ZodError">>
    [] OTHER -> <<201, "">>

\* POST /api/services: the status and message of the response
PostServiceResponse(caller, body) ==
  CASE ~isAuthenticated(caller) -> <<401, "Unauthorized">>
    [] Text(currentUser(caller), "role") \notin {"assistant", "admin"} ->
         <<403, "Forbidden - Only assistants can create services">>
    [] ~insertServiceValid(body) -> <<400, "ZodError">>
    [] notAdmin(caller) /\ body.assistantId # currentUser(caller).id ->
         <<403, "Forbidden - Cannot create services for other assistants">>
    [] OTHER -> <<201, "">>

\* POST /api/services
PostService(caller, body) ==
  LET insertServiceKeys == {"assistantId", "categoryId"}
  IN
  LET r == PostServiceResponse(caller, body) IN
  /\ UNCHANGED calls
  /\ last' = Response("postService", r[1], r[2])
  /\ IF r[1] = 201
       THEN createService(Strip(body, insertServiceKeys))
       ELSE UNCHANGED <<services, currentServiceId, assigned>>
  /\ UNCHANGED <<users, serviceCategories, bookings, reviews, messages,
                 currentUserId, currentServiceCategoryId, currentBookingId,
                 currentReviewId, currentMessageId>>

\* PATCH and DELETE /api/services/:id: the status and message of the response
ServiceOwnerResponse(caller, serviceId, done) ==
  CASE ~isAuthenticated(caller) -> <<401, "Unauthorized">>
    [] serviceId \notin DOMAIN services -> <<404, "Service not found">>
    [] /\ notAdmin(caller)
       /\ services[serviceId].assistantId # currentUser(caller).id ->
         <<403, "Forbidden">>
    [] OTHER -> <<200, done>>

\* PATCH /api/services/:id
PatchService(caller, serviceId, body) ==
  LET r == ServiceOwnerResponse(caller, serviceId, "") IN
  /\ UNCHANGED calls
  /\ last' = Response("patchService", r[1], r[2])
  /\ IF r[1] = 200
       THEN updateService(serviceId, body)
       ELSE UNCHANGED services
  /\ UNCHANGED <<users, serviceCategories, bookings, reviews, messages,
                 currentUserId, currentServiceCategoryId, currentServiceId,
                 currentBookingId, currentReviewId, currentMessageId,
                 assigned>>

\* DELETE /api/services/:id
DeleteService(caller, serviceId) ==
  LET r == ServiceOwnerResponse(caller, serviceId,
                                "Service deleted successfully") IN
  /\ UNCHANGED calls
  /\ last' = Response("deleteService", r[1], r[2])
  /\ IF r[1] = 200 THEN deleteService(serviceId) ELSE UNCHANGED services
  /\ UNCHANGED <<users, serviceCategories, bookings, reviews, messages,
                 currentUserId, currentServiceCategoryId, currentServiceId,
                 currentBookingId, currentReviewId, currentMessageId,
                 assigned>>

\* ------------------------------------------------------- booking routes

\* GET /api/bookings
GetBookings(caller) ==
  ReadOnly(IF ~isAuthenticated(caller)
             THEN Response("getBookings", 401, "Unauthorized")
             ELSE Response("getBookings", 200, ""))

\* The caller is no party to the booking and no admin.
notParty(caller, booking) ==
  /\ notAdmin(caller)
  /\ Num(booking, "clientId") # currentUser(caller).id
  /\ Num(booking, "assistantId") # currentUser(caller).id

\* GET /api/bookings/:id
GetBooking(caller, bookingId) ==
  LET r == CASE ~isAuthenticated(caller) -> <<401, "Unauthorized">>
             [] bookingId \notin DOMAIN bookings ->
                  <<404, "Booking not found">>
             [] notParty(caller, bookings[bookingId]) -> <<403, "Forbidden">>
             [] OTHER -> <<200, "">>
  IN ReadOnly(Response("getBooking", r[1], r[2]))

\* insertBookingSchema.parse succeeds: status has a default and may be left out
insertBookingValid(body) ==
  {"clientId", "assistantId", "serviceId"} \subseteq DOMAIN body

\* POST /api/bookings with the assistant's role left unread
PostBookingResponseAnyRole(caller, body) ==
  CASE ~isAuthenticated(caller) -> <<401, "Unauthorized">>
    [] ~insertBookingValid(body) -> <<400, "ZodError">>
    [] notAdmin(caller) /\ body.clientId # currentUser(caller).id ->
         <<403, "Forbidden - Cannot create bookings for other users">>
    [] body.serviceId \notin DOMAIN services -> <<404, "Service not found">>
    [] body.assistantId \notin DOMAIN users -> <<404, "Assistant not found">>
    [] OTHER -> <<201, "">>

\* POST /api/bookings: the status and message of the response
PostBookingResponse(caller, body) ==
  CASE ~isAuthenticated(caller) -> <<401, "Unauthorized">>
    [] ~insertBookingValid(body) -> <<400, "ZodError">>
    [] notAdmin(caller) /\ body.clientId # currentUser(caller).id ->
         <<403, "Forbidden - Cannot create bookings for other users">>
    [] body.serviceId \notin DOMAIN services -> <<404, "Service not found">>
    [] \/ body.assistantId \notin DOMAIN users
       \/ Text(users[body.assistantId], "role") # "assistant" ->
         <<404, "Assistant not found">>
    [] OTHER -> <<201, "">>

\* POST /api/bookings
PostBooking(caller, body) ==
  LET insertBookingKeys == {"clientId", "assistantId", "serviceId", "status"}
  IN
  LET r == PostBookingResponse(caller, body) IN
  /\ UNCHANGED calls
  /\ last' = Response("postBooking", r[1], r[2])
  /\ IF r[1] = 201
       THEN createBooking(Strip(body, insertBookingKeys))
       ELSE UNCHANGED <<bookings, currentBookingId, assigned>>
  /\ UNCHANGED <<users, serviceCategories, services, reviews, messages,
                 currentUserId, currentServiceCategoryId, currentServiceId,
                 currentReviewId, currentMessageId>>

allowedStatusChanges(userType) ==
  IF userType = "client" THEN {"cancelled"}
  ELSE {"confirmed", "completed", "cancelled"}

\* The status check of PATCH /api/bookings/:id refuses the request.
statusRefused(caller, booking, body) ==
  \* A JavaScript string in a condition: the empty string is false.
  LET Truthy(text) == text \notin {Undefined, ""}
  IN
  LET userType == IF Num(booking, "clientId") = currentUser(caller).id
                    THEN "client" ELSE "assistant"
  IN /\ Truthy(Text(body, "status"))
     /\ Text(body, "status") # Text(booking, "status")
     /\ Text(body, "status") \notin allowedStatusChanges(userType)

\* PATCH /api/bookings/:id: the status and message of the response
PatchBookingResponse(caller, bookingId, body) ==
  CASE ~isAuthenticated(caller) -> <<401, "Unauthorized">>
    [] bookingId \notin DOMAIN bookings -> <<404, "Booking not found">>
    [] notParty(caller, bookings[bookingId]) -> <<403, "Forbidden">>
    [] notAdmin(caller) /\ statusRefused(caller, bookings[bookingId], body) ->
         <<403, "cannot change booking status">>
    [] OTHER -> <<200, "">>

\* PATCH /api/bookings/:id
PatchBooking(caller, bookingId, body) ==
  LET r == PatchBookingResponse(caller, bookingId, body) IN
  /\ UNCHANGED calls
  /\ last' = Response("patchBooking", r[1], r[2])
  /\ IF r[1] = 200
       THEN updateBooking(bookingId, body)
       ELSE UNCHANGED bookings
  /\ UNCHANGED <<users, serviceCategories, services, reviews, messages,
                 currentUserId, currentServiceCategoryId, currentServiceId,
                 currentBookingId, currentReviewId, currentMessageId,
                 assigned>>

\* -------------------------------------------------------- review routes

insertReviewKeys == {"bookingId", "clientId", "assistantId", "rating"}

\* insertReviewSchema.parse succeeds
insertReviewValid(body) == insertReviewKeys \subseteq DOMAIN body

\* POST /api/reviews with the check of the booking's status left out
PostReviewResponseAnyStatus(caller, body) ==
  CASE ~isAuthenticated(caller) -> <<401, "Unauthorized">>
    [] ~insertReviewValid(body) -> <<400, "ZodError">>
    [] notAdmin(caller) /\ body.clientId # currentUser(caller).id ->
         <<403, "Forbidden - Cannot post reviews as other users">>
    [] body.bookingId \notin DOMAIN bookings -> <<404, "Booking not found">>
    [] \/ Num(bookings[body.bookingId], "clientId") # body.clientId
       \/ Num(bookings[body.bookingId], "assistantId") # body.assistantId ->
         <<400, "Review details do not match booking">>
    [] OTHER -> <<201, "">>

\* POST /api/reviews: the status and message of the response
PostReviewResponse(caller, body) ==
  CASE ~isAuthenticated(caller) -> <<401, "Unauthorized">>
    [] ~insertReviewValid(body) -> <<400, "ZodError">>
    [] notAdmin(caller) /\ body.clientId # currentUser(caller).id ->
         <<403, "Forbidden - Cannot post reviews as other users">>
    [] body.bookingId \notin DOMAIN bookings -> <<404, "Booking not found">>
    [] Text(bookings[body.bookingId], "status") # "completed" ->
         <<400, "Cannot review incomplete bookings">>
    [] \/ Num(bookings[body.bookingId], "clientId") # body.clientId
       \/ Num(bookings[body.bookingId], "assistantId") # body.assistantId ->
         <<400, "Review details do not match booking">>
    [] OTHER -> <<201, "">>

\* POST /api/reviews with the review stored before the booking's status is
\* looked at
PostReviewStoreFirst(caller, body) ==
  LET r == PostReviewResponse(caller, body) IN
  /\ UNCHANGED calls
  /\ last' = Response("postReview", r[1], r[2])
  /\ IF r[1] = 201 \/ r[2] = "Cannot review incomplete bookings"
       THEN createReview(Strip(body, insertReviewKeys))
       ELSE UNCHANGED <<reviews, currentReviewId, assigned, users>>
  /\ UNCHANGED <<serviceCategories, services, bookings, messages,
                 currentUserId, currentServiceCategoryId, currentServiceId,
                 currentBookingId, currentMessageId>>

\* POST /api/reviews
PostReview(caller, body) ==
  LET r == PostReviewResponse(caller, body) IN
  /\ UNCHANGED calls
  /\ last' = Response("postReview", r[1], r[2])
  /\ IF r[1] = 201
       THEN createReview(Strip(body, insertReviewKeys))
       ELSE UNCHANGED <<reviews, currentReviewId, assigned, users>>
  /\ UNCHANGED <<serviceCategories, services, bookings, messages,
                 currentUserId, currentServiceCategoryId, currentServiceId,
                 currentBookingId, currentMessageId>>

\* ------------------------------------------------------- message routes

\* GET /api/messages/:userId?otherUserId=
GetMessages(caller, userId, otherUserId) ==
  /\ UNCHANGED calls
  /\ last' =
       CASE ~isAuthenticated(caller) ->
              Response("getMessages", 401, "Unauthorized")
         [] notAdmin(caller) /\ currentUser(caller).id # userId ->
              Response("getMessages", 403, "Forbidden")
         [] otherUserId = 0 ->
              Response("getMessages", 400,
                       "otherUserId query parameter required")
         [] OTHER ->
              Json("getMessages", 200,
                   getMessagesBetweenUsers(userId, otherUserId))
  /\ UNCHANGED <<users, serviceCategories, services, bookings, reviews,
                 messages, currentUserId, currentServiceCategoryId,
                 currentServiceId, currentBookingId, currentReviewId,
                 currentMessageId, assigned>>

\* insertMessageSchema.parse succeeds
insertMessageValid(body) == {"senderId", "receiverId"} \subseteq DOMAIN body

\* POST /api/messages: the status and message of the response
PostMessageResponse(caller, body) ==
  CASE ~isAuthenticated(caller) -> <<401, "Unauthorized">>
    [] ~insertMessageValid(body) -> <<400, "ZodError">>
    [] notAdmin(caller) /\ body.senderId # currentUser(caller).id ->
         <<403, "Forbidden - Cannot send messages as other users">>
    [] body.receiverId \notin DOMAIN users -> <<404, "Receiver not found">>
    [] OTHER -> <<201, "">>

\* POST /api/messages, the clock reading `now`
PostMessage(caller, body, now) ==
  LET insertMessageKeys == {"senderId", "receiverId", "isRead"}
  IN
  LET r == PostMessageResponse(caller, body) IN
  /\ UNCHANGED calls
  /\ last' = Response("postMessage", r[1], r[2])
  /\ IF r[1] = 201
       THEN createMessage(Strip(body, insertMessageKeys), now)
       ELSE UNCHANGED <<messages, currentMessageId, assigned>>
  /\ UNCHANGED <<users, serviceCategories, services, bookings, reviews,
                 currentUserId, currentServiceCategoryId, currentServiceId,
                 currentBookingId, currentReviewId>>

\* PATCH /api/messages/:id/read: past the session check the handler calls
\* storage.getMessages, which the store does not have; the TypeError is
\* caught and answered 500
MarkRead(caller, messageId) ==
  ReadOnly(IF ~isAuthenticated(caller)
             THEN Response("markRead", 401, "Unauthorized")
             ELSE Response("markRead", 500,
                           "storage.getMessages is not a function"))

\* ------------------------------------------- the accounts specification

\* "a", "A", "b" and "x", "X", "y"
AccountNames == {<<97>>, <<65>>, <<98>>}
AccountEmails == {<<120>>, <<88>>, <<121>>}

RegisterBodies ==
  {[username |-> n, email |-> e, password |-> <<112>>, role |-> r] :
     n \in AccountNames, e \in AccountEmails, r \in {"client", "admin"}}
  \cup {[username |-> n, email |-> e, password |-> <<112>>] :
          n \in {<<98>>}, e \in {<<121>>}}
  \cup {[username |-> n] : n \in {<<98>>}}

AccountsRegister ==
  /\ currentUserId <= MaxAccounts
  /\ \E body \in RegisterBodies : Register(body)

AccountsPatchUser ==
  LET PatchUserBodies ==
      {[username |-> n] : n \in AccountNames}
      \cup {[email |-> e] : e \in AccountEmails}
  IN
  \E caller \in 0 .. MaxAccounts, userId \in 1 .. MaxAccounts,
     body \in PatchUserBodies :
    PatchUser(caller, userId, body)

SpecAccounts ==
  Init /\ [][\/ AccountsRegister
             \/ AccountsPatchUser]_vars

\* -------------------------------------------- the booking specification

\* Sessions: none (0), or that of a user registered or yet to register.
Callers == 0 .. MaxUsers

StatusBodies ==
  {[status |-> s] :
     s \in {"confirmed", "completed", "cancelled", "archived", ""}}

ReviewBodies ==
  {[bookingId |-> b, clientId |-> c, assistantId |-> a, rating |-> r] :
     b \in 1 .. MaxBookings, c \in 1 .. MaxUsers, a \in 1 .. MaxUsers,
     r \in {2, 5}}
  \cup {[bookingId |-> MaxBookings + 1, clientId |-> 1, assistantId |-> 2,
         rating |-> 5],
        [bookingId |-> 1, clientId |-> 1, assistantId |-> 2]}

BookingRegister ==
  LET Roles == {"client", "assistant", "admin"}
  IN
  \* The body of the next registration: a name and an email no stored user
  \* has ("a", "b", ... by the id it will get), and a role.
  LET FreshUserBodies ==
      {[username |-> <<96 + currentUserId>>, email |-> <<96 + currentUserId>>,
        password |-> <<112>>, role |-> r] : r \in Roles}
  IN
  /\ currentUserId <= MaxUsers
  /\ \E body \in FreshUserBodies : Register(body)

BookingPostService ==
  LET ServiceBodies ==
      {[assistantId |-> a, categoryId |-> 1] : a \in 1 .. MaxUsers}
  IN
  /\ currentServiceId <= MaxServices
  /\ \E caller \in Callers, body \in ServiceBodies : PostService(caller, body)

BookingPostBooking ==
  LET BookingBodies ==
      {[clientId |-> c, assistantId |-> a, serviceId |-> 1] :
         c \in 1 .. MaxUsers, a \in 1 .. MaxUsers}
      \cup {[clientId |-> c, assistantId |-> a, serviceId |-> 1, status |-> s] :
              c \in 1 .. MaxUsers, a \in 1 .. MaxUsers,
              s \in {"pending", "completed"}}
      \cup {[clientId |-> 1, assistantId |-> 2, serviceId |-> 2],
            [clientId |-> 1, serviceId |-> 1]}
  IN
  /\ currentBookingId <= MaxBookings
  /\ \E caller \in Callers, body \in BookingBodies : PostBooking(caller, body)

BookingPatchBooking ==
  \E caller \in Callers, bookingId \in 1 .. MaxBookings + 1,
     body \in StatusBodies :
    PatchBooking(caller, bookingId, body)

BookingPostReview ==
  /\ currentReviewId <= MaxReviews
  /\ \E caller \in Callers, body \in ReviewBodies : PostReview(caller, body)

Next ==
  \/ BookingRegister
  \/ BookingPostService
  \/ BookingPostBooking
  \/ BookingPatchBooking
  \/ BookingPostReview

Spec == Init /\ [][Next]_vars

\* ------------------------------------------- specification of the reviews
\* One client (user 1), one assistant (user 2), one admin (user 3) and
\* outsiders after them; the assistant's service is booked in the client's or
\* the admin's name, the booking is moved on, and anyone tries to review it.

ReviewsUserBody ==
  LET ReviewsRole(id) ==
      CASE id = 1 -> "client"
        [] id = 2 -> "assistant"
        [] id = 3 -> "admin"
        [] OTHER -> "client"
  IN
  [username |-> <<96 + currentUserId>>, email |-> <<96 + currentUserId>>,
   password |-> <<112>>, role |-> ReviewsRole(currentUserId)]

ReviewsStatusBodies ==
  {[status |-> s] : s \in {"completed", "cancelled", ""}}

ReviewsRegister ==
  /\ currentUserId <= MaxUsers
  /\ Register(ReviewsUserBody)

ReviewsPostService ==
  /\ currentServiceId <= MaxServices
  /\ \E caller \in Callers :
       PostService(caller, [assistantId |-> 2, categoryId |-> 1])

ReviewsPostBooking ==
  LET ReviewsBookingBodies ==
      {[clientId |-> c, assistantId |-> 2, serviceId |-> 1] : c \in {1, 3}}
      \cup {[clientId |-> c, assistantId |-> 2, serviceId |-> 1,
              status |-> "completed"] : c \in {1, 3}}
  IN
  /\ currentBookingId <= MaxBookings
  /\ \E caller \in Callers, body \in ReviewsBookingBodies :
       PostBooking(caller, body)

ReviewsPatchBooking ==
  \E caller \in Callers, bookingId \in 1 .. MaxBookings,
     body \in ReviewsStatusBodies :
    PatchBooking(caller, bookingId, body)

ReviewsPostReview ==
  \* Reviews in the client's or the admin's name, of the assistant or of the
  \* client, with two ratings; one of a booking that does not exist and one
  \* without a rating.
  LET ReviewsBodies ==
      {[bookingId |-> b, clientId |-> c, assistantId |-> a, rating |-> r] :
         b \in 1 .. MaxBookings, c \in {1, 3}, a \in {1, 2}, r \in {2, 5}}
      \cup {[bookingId |-> MaxBookings + 1, clientId |-> 1, assistantId |-> 2,
             rating |-> 5],
            [bookingId |-> 1, clientId |-> 1, assistantId |-> 2]}
  IN
  /\ currentReviewId <= MaxReviews
  /\ \E caller \in Callers, body \in ReviewsBodies : PostReview(caller, body)

SpecReviews ==
  Init /\ [][\/ ReviewsRegister
             \/ ReviewsPostService
             \/ ReviewsPostBooking
             \/ ReviewsPatchBooking
             \/ ReviewsPostReview]_vars

\* ---------------------------------------------- the store specification

\* Every creating, updating and deleting route of the six kinds, each with
\* one or two bodies.

\* Sessions: none (0), the first account's, the second account's.
StoreCallers == 0 .. 2

\* The first category a request creates.
NewCategory == Len(categories) + 1

StoreRegister ==
  \* The first account is an assistant's or an admin's, the others assistants'.
  LET StoreUserBodies ==
      {[username |-> <<96 + currentUserId>>, email |-> <<96 + currentUserId>>,
        password |-> <<112>>, role |-> r] :
         r \in IF currentUserId = 1 THEN {"assistant", "admin"}
               ELSE {"assistant"}}
  IN
  /\ currentUserId <= MaxCreated
  /\ \E body \in StoreUserBodies : Register(body)

StorePostCategory ==
  /\ currentServiceCategoryId <= Len(categories) + MaxCreated
  /\ \E caller \in StoreCallers : PostCategory(caller, [name |-> "Courier"])

StorePatchCategory ==
  \E caller \in StoreCallers :
    PatchCategory(caller, NewCategory, [name |-> "Rider"])

StoreDeleteCategory ==
  \E caller \in StoreCallers : DeleteCategory(caller, NewCategory)

StorePostService ==
  /\ currentServiceId <= MaxCreated
  /\ \E caller \in StoreCallers :
       PostService(caller, [assistantId |-> 2, categoryId |-> NewCategory])

StorePatchService ==
  \E caller \in StoreCallers : PatchService(caller, 1, [categoryId |-> 1])

StoreDeleteService == \E caller \in StoreCallers : DeleteService(caller, 1)

StorePostBooking ==
  /\ currentBookingId <= MaxCreated
  /\ \E caller \in StoreCallers :
       PostBooking(caller, [clientId |-> 1, assistantId |-> 2,
                            serviceId |-> 1, status |-> "completed"])

StorePatchBooking ==
  \E caller \in StoreCallers :
    PatchBooking(caller, 1, [status |-> "cancelled"])

StorePostReview ==
  /\ currentReviewId <= MaxCreated
  /\ \E caller \in StoreCallers :
       PostReview(caller, [bookingId |-> 1, clientId |-> 1,
                           assistantId |-> 2, rating |-> 5])

StorePostMessage ==
  /\ currentMessageId <= MaxCreated
  /\ \E caller \in StoreCallers :
       PostMessage(caller, [senderId |-> 1, receiverId |-> 2], 0)

SpecStore ==
  Init /\ [][\/ StoreRegister
             \/ StorePostCategory
             \/ StorePatchCategory
             \/ StoreDeleteCategory
             \/ StorePostService
             \/ StorePatchService
             \/ StoreDeleteService
             \/ StorePostBooking
             \/ StorePatchBooking
             \/ StorePostReview
             \/ StorePostMessage]_vars

\* ------------------------------------- specification of owned resources
\* An assistant (user 1), a client (user 2), an admin (user 3) and assistants
\* after them; profiles, the services of users 1 and 2 and the messages
\* between them are written, changed and read by every caller.

\* Bodies of PATCH /api/users/:id: a new name ("z"), and an id field.
SelfPatchUserBodies == {[username |-> <<122>>], [id |-> 2]}

\* Messages to user 2, one of them sent as already read, and one with no
\* receiver.
SelfMessageBodies ==
  {[senderId |-> s, receiverId |-> 2] : s \in {1, 2}}
  \cup {[senderId |-> 1, receiverId |-> 2, isRead |-> TRUE],
        [senderId |-> 2]}

SelfRegister ==
  LET SelfRole(id) ==
      CASE id = 1 -> "assistant"
        [] id = 2 -> "client"
        [] id = 3 -> "admin"
        [] OTHER -> "assistant"
  IN
  LET SelfUserBody ==
      [username |-> <<96 + currentUserId>>, email |-> <<96 + currentUserId>>,
       password |-> <<112>>, role |-> SelfRole(currentUserId)]
  IN
  /\ currentUserId <= MaxUsers
  /\ Register(SelfUserBody)

SelfPatchUser ==
  \E caller \in Callers, userId \in {1, 2}, body \in SelfPatchUserBodies :
    PatchUser(caller, userId, body)

SelfPostService ==
  LET SelfServiceBodies ==
      {[assistantId |-> a, categoryId |-> 1] : a \in {1, 2}}
  IN
  /\ currentServiceId <= MaxServices
  /\ \E caller \in Callers, body \in SelfServiceBodies :
       PostService(caller, body)

SelfPatchService ==
  \E caller \in Callers, serviceId \in 1 .. MaxServices :
    PatchService(caller, serviceId, [categoryId |-> 2])

SelfDeleteService ==
  \E caller \in Callers, serviceId \in 1 .. MaxServices :
    DeleteService(caller, serviceId)

SelfPostMessage ==
  /\ currentMessageId <= MaxCreated
  /\ \E caller \in Callers, body \in SelfMessageBodies :
       PostMessage(caller, body, 0)

SelfMarkRead ==
  \E caller \in Callers, messageId \in 1 .. MaxCreated :
    MarkRead(caller, messageId)

SpecSelf ==
  Init /\ [][\/ SelfRegister
             \/ SelfPatchUser
             \/ SelfPostService
             \/ SelfPatchService
             \/ SelfDeleteService
             \/ SelfPostMessage
             \/ SelfMarkRead]_vars

\* ------------------------------------------ specification of creation
\* The users of the owned resources (assistant 1, client 2, admin 3); every
\* caller asks for services in the name of users 1 to 3 and for bookings in
\* the name of users 1 and 2, of an assistant, of a client and of nobody, for
\* a service that may not exist, while profile updates change the roles and
\* the id field of users 1 and 2.

CreationServiceBodies ==
  {[assistantId |-> a, categoryId |-> 1] : a \in {1, 2, 3}}
  \cup {[assistantId |-> 1]}

CreationBookingBodies ==
  {[clientId |-> c, assistantId |-> a, serviceId |-> s] :
     c \in {1, 2}, a \in {1, 2, MaxUsers + 1}, s \in {1, MaxServices + 1}}
  \cup {[clientId |-> 2, serviceId |-> 1]}

CreationPatchUser ==
  LET CreationPatchUserBodies ==
      {[role |-> "assistant"], [role |-> "client"], [id |-> 1]}
  IN
  \E caller \in Callers, userId \in {1, 2},
     body \in CreationPatchUserBodies :
    PatchUser(caller, userId, body)

CreationPostService ==
  /\ currentServiceId <= MaxServices
  /\ \E caller \in Callers, body \in CreationServiceBodies :
       PostService(caller, body)

CreationPostBooking ==
  /\ currentBookingId <= MaxBookings
  /\ \E caller \in Callers, body \in CreationBookingBodies :
       PostBooking(caller, body)

SpecCreation ==
  Init /\ [][\/ SelfRegister
             \/ CreationPatchUser
             \/ CreationPostService
             \/ CreationPostBooking]_vars

\* ---------------------------------- specification of the nearby search
\* Users register with a place on the meridian lng = 0 (latitude 0, 1 or 3),
\* with location null or with none, as assistants or as a client; searches
\* are made from latitudes 0 and 2 with several radii.

NearbyCenters == {[lat |-> lat, lng |-> 0] : lat \in {0, 2}}

NearbyRadii == {0, 120, 250}

NearbyRegister ==
  LET NearbyUserBodies ==
      {[username |-> <<96 + currentUserId>>, email |-> <<96 + currentUserId>>,
        password |-> <<112>>, role |-> "assistant",
        location |-> [lat |-> lat, lng |-> 0]] : lat \in {0, 1, 3}}
      \cup {[username |-> <<96 + currentUserId>>,
              email |-> <<96 + currentUserId>>, password |-> <<112>>,
              role |-> "assistant", location |-> Null],
            [username |-> <<96 + currentUserId>>,
              email |-> <<96 + currentUserId>>, password |-> <<112>>,
              role |-> "assistant"],
            [username |-> <<96 + currentUserId>>,
              email |-> <<96 + currentUserId>>, password |-> <<112>>,
              role |-> "client", location |-> [lat |-> 1, lng |-> 0]]}
  IN
  /\ currentUserId <= MaxUsers
  /\ \E body \in NearbyUserBodies : Register(body)

NearbySearch ==
  LET NearbyQueries ==
      {[lat |-> c.lat, lng |-> c.lng, radius |-> r] :
         c \in NearbyCenters, r \in NearbyRadii}
      \cup {[lat |-> 0, lng |-> 0], [lat |-> 0]}
  IN
  \E query \in NearbyQueries : Nearby(query)

SpecNearby ==
  Init /\ [][\/ NearbyRegister
             \/ NearbySearch]_vars

\* ---------------------------------- specification of the conversations
\* The users of the owned resources send messages between users 1 and 2 and
\* with user 3, at times the clock reads in any order (new Date() is the
\* wall clock, which may be set back), and read the conversations.

ConversationPostMessage ==
  LET ConversationBodies ==
      {[senderId |-> 1, receiverId |-> 2], [senderId |-> 2, receiverId |-> 1],
       [senderId |-> 1, receiverId |-> 3], [senderId |-> 3, receiverId |-> 2]}
  IN
  LET Times == {1, 2}
  IN
  /\ currentMessageId <= MaxCreated
  /\ \E caller \in Callers, body \in ConversationBodies, now \in Times :
       PostMessage(caller, body, now)

ConversationGetMessages ==
  \E caller \in Callers, userId \in {1, 2, 3}, otherUserId \in 0 .. 3 :
    GetMessages(caller, userId, otherUserId)

SpecConversation ==
  Init /\ [][\/ SelfRegister
             \/ ConversationPostMessage
             \/ ConversationGetMessages]_vars

\* ------------------------------------ specification of the user records
\* Assistants register with a name of three characters, a password of six
\* and a place; passwords and places are changed, and every endpoint that
\* answers with user records is called.

\* "secret", "hunter"
Passwords ==
  {<<115, 101, 99, 114, 101, 116>>, <<104, 117, 110, 116, 101, 114>>}

\* "usa", "usb", ... by the id the user will get
PasswordsName(id) == <<117, 115, 96 + id>>

PasswordsRegister ==
  LET PasswordsUserBodies ==
      {[username |-> PasswordsName(currentUserId),
        email |-> PasswordsName(currentUserId),
        password |-> p, role |-> "assistant",
        location |-> [lat |-> currentUserId, lng |-> 0]] : p \in Passwords}
  IN
  /\ currentUserId <= MaxAccounts
  /\ \E body \in PasswordsUserBodies : Register(body)

PasswordsPatchUser ==
  LET PasswordsPatchBodies ==
      {[password |-> <<104, 117, 110, 116, 101, 114>>],
       [location |-> [lat |-> 0, lng |-> 0]]}
  IN
  \E caller \in 0 .. MaxAccounts, userId \in 1 .. MaxAccounts,
     body \in PasswordsPatchBodies :
    PatchUser(caller, userId, body)

PasswordsGetMe == \E caller \in 0 .. MaxAccounts : GetMe(caller)

PasswordsLogin ==
  LET PasswordsLoginBodies ==
      {[username |-> PasswordsName(id), password |-> p] :
         id \in 1 .. MaxAccounts, p \in Passwords}
      \cup {[username |-> <<117>>, password |-> <<112>>]}
  IN
  \E body \in PasswordsLoginBodies : Login(body)

PasswordsGetUser == \E userId \in 1 .. MaxAccounts + 1 : GetUser(userId)

PasswordsNearby ==
  \E radius \in {120, 250} : Nearby([lat |-> 0, lng |-> 0, radius |-> radius])

SpecPasswords ==
  Init /\ [][\/ PasswordsRegister
             \/ PasswordsPatchUser
             \/ PasswordsGetMe
             \/ PasswordsLogin
             \/ PasswordsGetUser
             \/ PasswordsNearby]_vars

\* ------------------------------------- specification of the rejections
\* The users of the reviews specification register, some with a name or an
\* email already taken or with a body the schema refuses; every session
\* calls every writing endpoint, with bodies and ids the handlers accept and
\* bodies and ids they refuse.

RejectionsRegister ==
  LET RejectionsUserBodies ==
      {ReviewsUserBody,
       [ReviewsUserBody EXCEPT !.username = <<97>>],
       [ReviewsUserBody EXCEPT !.email = <<97>>],
       [username |-> <<97>>]}
  IN
  /\ currentUserId <= MaxUsers
  /\ \E body \in RejectionsUserBodies : Register(body)

RejectionsPatchUser ==
  \E caller \in Callers, userId \in {2, MaxUsers + 1} :
    PatchUser(caller, userId, [role |-> "assistant"])

RejectionsPostCategory ==
  /\ currentServiceCategoryId <= Len(categories) + 1
  /\ \E caller \in Callers, body \in {[name |-> "Courier"], Empty} :
       PostCategory(caller, body)

RejectionsPatchCategory ==
  \E caller \in Callers :
    PatchCategory(caller, NewCategory, [name |-> "Courier"])

RejectionsDeleteCategory ==
  \E caller \in Callers : DeleteCategory(caller, NewCategory)

RejectionsPostService ==
  /\ currentServiceId <= MaxServices
  /\ \E caller \in Callers,
        body \in {[assistantId |-> 2, categoryId |-> 1], [categoryId |-> 1]} :
       PostService(caller, body)

RejectionsPatchService ==
  \E caller \in Callers, serviceId \in 1 .. MaxServices + 1 :
    PatchService(caller, serviceId, [categoryId |-> 1])

RejectionsDeleteService ==
  \E caller \in Callers : DeleteService(caller, MaxServices + 1)

RejectionsPostBooking ==
  LET RejectionsBookingBodies ==
      {[clientId |-> 1, assistantId |-> 2, serviceId |-> 1],
       [clientId |-> 1, assistantId |-> 2, serviceId |-> 1,
        status |-> "completed"],
       [clientId |-> 1, assistantId |-> 1, serviceId |-> 1],
       [clientId |-> 1, assistantId |-> 2, serviceId |-> MaxServices + 1],
       [clientId |-> 1]}
  IN
  /\ currentBookingId <= MaxBookings
  /\ \E caller \in Callers, body \in RejectionsBookingBodies :
       PostBooking(caller, body)

RejectionsPatchBooking ==
  \E caller \in Callers, bookingId \in 1 .. MaxBookings + 1,
     body \in ReviewsStatusBodies :
    PatchBooking(caller, bookingId, body)

RejectionsPostReview ==
  LET RejectionsReviewBodies ==
      {[bookingId |-> b, clientId |-> 1, assistantId |-> a, rating |-> 5] :
         b \in 1 .. MaxBookings + 1, a \in {1, 2}}
      \cup {[bookingId |-> 1, clientId |-> 1, assistantId |-> 2]}
  IN
  /\ currentReviewId <= MaxBookings
  /\ \E caller \in Callers, body \in RejectionsReviewBodies :
       PostReview(caller, body)

RejectionsPostMessage ==
  LET RejectionsMessageBodies ==
      {[senderId |-> 1, receiverId |-> r] : r \in {2, MaxUsers + 1}}
      \cup {[senderId |-> 1]}
  IN
  /\ currentMessageId <= 1
  /\ \E caller \in Callers, body \in RejectionsMessageBodies :
       PostMessage(caller, body, 0)

SpecRejections ==
  Init /\ [][\/ RejectionsRegister
             \/ RejectionsPatchUser
             \/ RejectionsPostCategory
             \/ RejectionsPatchCategory
             \/ RejectionsDeleteCategory
             \/ RejectionsPostService
             \/ RejectionsPatchService
             \/ RejectionsDeleteService
             \/ RejectionsPostBooking
             \/ RejectionsPatchBooking
             \/ RejectionsPostReview
             \/ RejectionsPostMessage]_vars

\* ----------------------------------------- specification of the updates
\* The users of the reviews specification, the assistant's services and the
\* client's bookings of the first; every session sends partial updates of
\* users, categories, services and bookings, for ids the store holds and
\* ids it does not.

\* Sessions: none (0), the client's, the assistant's, the admin's.
UpdatesCallers == 0 .. 3

UpdatesUserIds == {2, MaxUsers + 1}

UpdatesUserBodies == {[email |-> <<122>>], [location |-> Null]}

UpdatesCategoryIds == {1, NewCategory}

UpdatesCategoryBodies == {[name |-> "Rider"]}

UpdatesServiceIds == 1 .. MaxServices + 1

UpdatesServiceBodies == {[price |-> 5]}

UpdatesBookingIds == 1 .. MaxBookings + 1

UpdatesBookingBodies == {[status |-> "cancelled"], [price |-> 5]}

UpdatesPostService ==
  /\ currentServiceId <= MaxServices
  /\ PostService(2, [assistantId |-> 2, categoryId |-> 1])

UpdatesPostBooking ==
  /\ currentBookingId <= MaxBookings
  /\ PostBooking(1, [clientId |-> 1, assistantId |-> 2, serviceId |-> 1])

UpdatesPatchUser ==
  \E caller \in UpdatesCallers, userId \in UpdatesUserIds,
     body \in UpdatesUserBodies :
    PatchUser(caller, userId, body)

UpdatesPatchCategory ==
  \E caller \in UpdatesCallers, categoryId \in UpdatesCategoryIds,
     body \in UpdatesCategoryBodies :
    PatchCategory(caller, categoryId, body)

UpdatesPatchService ==
  \E caller \in UpdatesCallers, serviceId \in UpdatesServiceIds,
     body \in UpdatesServiceBodies :
    PatchService(caller, serviceId, body)

UpdatesPatchBooking ==
  \E caller \in UpdatesCallers, bookingId \in UpdatesBookingIds,
     body \in UpdatesBookingBodies :
    PatchBooking(caller, bookingId, body)

SpecUpdates ==
  Init /\ [][\/ ReviewsRegister
             \/ UpdatesPostService
             \/ UpdatesPostBooking
             \/ UpdatesPatchUser
             \/ UpdatesPatchCategory
             \/ UpdatesPatchService
             \/ UpdatesPatchBooking]_vars

\* ------------------------------------ specification of concurrent reviews
\* The users of the reviews specification register; once the assistant
\* (user 2) is stored, createReview is called for that assistant, each call
\* with one of two ratings, and a call suspended at an await resumes when
\* the scheduler picks it, in any order.

ConcurrentCall ==
  /\ 2 \in DOMAIN users
  /\ \E p \in 1 .. MaxCalls, rating \in {2, 5} :
       createReviewCall(p, [bookingId |-> 1, clientId |-> 1,
                            assistantId |-> 2, rating |-> rating])

ConcurrentResume == \E p \in DOMAIN calls : createReviewResume(p)

ConcurrentReturn == \E p \in DOMAIN calls : createReviewReturn(p)

SpecConcurrent ==
  Init /\ [][\/ ReviewsRegister
             \/ ConcurrentCall
             \/ ConcurrentResume
             \/ ConcurrentReturn]_vars

\* ------------------------------------------------- claims on the bookings

BookingStatuses == {"pending", "confirmed", "completed", "cancelled"}

\* C1: for a non-admin caller of PATCH /api/bookings/:id, a status change by
\* the booking's client succeeds only to cancelled, one by the booking's
\* assistant only to confirmed, completed or cancelled, a caller who is
\* neither is answered 403, and a rejected request leaves the booking as it
\* was.
C1_TransitionPolicy ==
  [][\A caller \in Callers, bookingId \in 1 .. MaxBookings,
        body \in StatusBodies :
       ( /\ last'.op = "patchBooking"
         /\ PatchBooking(caller, bookingId, body)
         /\ isAuthenticated(caller)
         /\ notAdmin(caller)
         /\ bookingId \in DOMAIN bookings ) =>
         LET me == currentUser(caller).id
             before == bookings[bookingId]
             after == bookings'[bookingId]
             changed == Text(after, "status") # Text(before, "status")
             succeeded == last'.code = 200
         IN /\ (before.clientId = me /\ succeeded /\ changed) =>
                 Text(after, "status") = "cancelled"
            /\ (before.assistantId = me /\ succeeded /\ changed) =>
                 Text(after, "status") \in
                   {"confirmed", "completed", "cancelled"}
            /\ (before.clientId # me /\ before.assistantId # me) =>
                 last'.code = 403
            /\ ~succeeded => after = before]_vars

\* C2: a booking just created by POST /api/bookings has status pending.
C2_CreatedPending ==
  (last.op = "postBooking" /\ last.code = 201) =>
    Text(bookings[currentBookingId - 1], "status") = "pending"

\* C3: in every reachable state the status of every stored booking is one of
\* pending, confirmed, completed, cancelled.
C3_StatusDomain ==
  \A k \in DOMAIN bookings : Text(bookings[k], "status") \in BookingStatuses

\* C4: POST /api/reviews stores a review only if the caller is the review's
\* clientId or an admin, the booking the review names exists, its status is
\* completed, and its clientId and assistantId are the review's; every other
\* request stores no review.
C4_ReviewGuard ==
  [][reviews' # reviews =>
       /\ last'.op = "postReview"
       /\ DOMAIN reviews' = DOMAIN reviews \cup {currentReviewId}
       /\ \A k \in DOMAIN reviews : reviews'[k] = reviews[k]
       /\ \A caller \in Callers, body \in ReviewBodies :
            PostReview(caller, body) =>
              LET review == reviews'[currentReviewId] IN
              /\ isAuthenticated(caller)
              /\ \/ currentUser(caller).id = review.clientId
                 \/ Text(currentUser(caller), "role") = "admin"
              /\ review.bookingId \in DOMAIN bookings
              /\ Text(bookings[review.bookingId], "status") = "completed"
              /\ bookings[review.bookingId].clientId = review.clientId
              /\ bookings[review.bookingId].assistantId =
                   review.assistantId]_vars

\* A review of a completed booking, written as the booking's client, was
\* just stored.
C4_Witness ==
  /\ last.op = "postReview" /\ last.code = 201
  /\ \E k \in DOMAIN reviews :
       /\ reviews[k].bookingId \in DOMAIN bookings
       /\ Text(bookings[reviews[k].bookingId], "status") = "completed"
       /\ bookings[reviews[k].bookingId].clientId = reviews[k].clientId

\* The ratings of the reviews stored for an assistant, added up.
RECURSIVE RatingTotal(_, _)
RatingTotal(assistantId, keys) ==
  IF keys = {} THEN 0
  ELSE LET k == CHOOSE x \in keys : TRUE
       IN (IF reviews[k].assistantId = assistantId
             THEN reviews[k].rating ELSE 0)
          + RatingTotal(assistantId, keys \ {k})

RatingCount(assistantId) ==
  Cardinality({k \in DOMAIN reviews : reviews[k].assistantId = assistantId})

\* C5: right after createReview for assistant A, A's avgRating is the sum of
\* the ratings of all reviews stored for A divided by their count: the
\* fraction p/q in lowest terms with p * count = q * sum.
C5_AverageIsMean ==
  (last.op = "postReview" /\ last.code = 201) =>
    LET A == reviews[currentReviewId - 1].assistantId IN
    A \in DOMAIN users =>
      /\ "avgRating" \in DOMAIN users[A]
      /\ LET avg == users[A].avgRating IN
         /\ avg[2] > 0
         /\ avg[1] * RatingCount(A) = avg[2] * RatingTotal(A, DOMAIN reviews)
         /\ \A d \in 2 .. avg[2] : avg[1] % d # 0 \/ avg[2] % d # 0

\* Two reviews with different ratings are stored for one assistant, the
\* second just created: the average is no whole number.
C5_Witness ==
  /\ last.op = "postReview" /\ last.code = 201
  /\ currentReviewId = 3
  /\ reviews[1].assistantId = reviews[2].assistantId
  /\ reviews[1].rating # reviews[2].rating
  /\ reviews[1].assistantId \in DOMAIN users
  /\ users[reviews[1].assistantId].avgRating = <<7, 2>>

\* ---------------------------------------------------- claims on the store

Kinds ==
  {"users", "serviceCategories", "services", "bookings", "reviews",
   "messages"}

Collection(kind) ==
  CASE kind = "users" -> users
    [] kind = "serviceCategories" -> serviceCategories
    [] kind = "services" -> services
    [] kind = "bookings" -> bookings
    [] kind = "reviews" -> reviews
    [] kind = "messages" -> messages

CollectionAfter(kind) ==
  CASE kind = "users" -> users'
    [] kind = "serviceCategories" -> serviceCategories'
    [] kind = "services" -> services'
    [] kind = "bookings" -> bookings'
    [] kind = "reviews" -> reviews'
    [] kind = "messages" -> messages'

\* C6: for each of the six kinds, the id a create assigns is the key and the
\* id of the record it stores and is greater than every id assigned before
\* for that kind, deleted records' ids included.
C6_IdsIncrease ==
  [][\A kind \in Kinds :
       LET created == DOMAIN CollectionAfter(kind) \ DOMAIN Collection(kind)
       IN /\ created = assigned'[kind] \ assigned[kind]
          /\ \A id \in created :
               /\ CollectionAfter(kind)[id].id = id
               /\ \A earlier \in assigned[kind] : id > earlier]_vars

\* A service was created after service 1 was deleted, and a category after
\* the first created category was deleted.
C6_Witness ==
  /\ 1 \notin DOMAIN services /\ 2 \in DOMAIN services
  /\ NewCategory \notin DOMAIN serviceCategories
  /\ NewCategory + 1 \in DOMAIN serviceCategories
  /\ assigned.services = {1, 2}

StoreUnchanged ==
  UNCHANGED <<users, serviceCategories, services, bookings, reviews,
              messages, currentUserId, currentServiceCategoryId,
              currentServiceId, currentBookingId, currentReviewId,
              currentMessageId>>

\* A request of the store specification to a protected endpoint, made
\* without a session.
Unauthenticated ==
  \/ PatchUser(None, 1, [role |-> "admin"])
  \/ PostCategory(None, [name |-> "Courier"])
  \/ PatchCategory(None, NewCategory, [name |-> "Rider"])
  \/ DeleteCategory(None, NewCategory)
  \/ PostService(None, [assistantId |-> 2, categoryId |-> NewCategory])
  \/ PatchService(None, 1, [categoryId |-> 1])
  \/ DeleteService(None, 1)
  \/ GetBookings(None)
  \/ GetBooking(None, 1)
  \/ PostBooking(None, [clientId |-> 1, assistantId |-> 2, serviceId |-> 1,
                        status |-> "completed"])
  \/ PatchBooking(None, 1, [status |-> "cancelled"])
  \/ PostReview(None, [bookingId |-> 1, clientId |-> 1, assistantId |-> 2,
                       rating |-> 5])
  \/ GetMessages(None, 1, 2)
  \/ PostMessage(None, [senderId |-> 1, receiverId |-> 2], 0)
  \/ MarkRead(None, 1)

\* C9: every request without an authenticated session to a protected
\* endpoint is answered 401 and changes nothing in the store.
C9_Unauthenticated401 ==
  [][Unauthenticated => (last'.code = 401 /\ StoreUnchanged)]_vars

\* C10: the references of a record a route handler has just created resolve:
\* a service's assistantId and categoryId, a booking's clientId, assistantId
\* and serviceId, a review's bookingId, clientId and assistantId, a message's
\* senderId and receiverId.
C10_ReferencesResolve ==
  /\ (last.op = "postService" /\ last.code = 201) =>
       LET service == services[currentServiceId - 1] IN
       /\ service.assistantId \in DOMAIN users
       /\ service.categoryId \in DOMAIN serviceCategories
  /\ (last.op = "postBooking" /\ last.code = 201) =>
       LET booking == bookings[currentBookingId - 1] IN
       /\ booking.clientId \in DOMAIN users
       /\ booking.assistantId \in DOMAIN users
       /\ booking.serviceId \in DOMAIN services
  /\ (last.op = "postReview" /\ last.code = 201) =>
       LET review == reviews[currentReviewId - 1] IN
       /\ review.bookingId \in DOMAIN bookings
       /\ review.clientId \in DOMAIN users
       /\ review.assistantId \in DOMAIN users
  /\ (last.op = "postMessage" /\ last.code = 201) =>
       LET message == messages[currentMessageId - 1] IN
       /\ message.senderId \in DOMAIN users
       /\ message.receiverId \in DOMAIN users

\* ------------------------------------------------- claims on the accounts

EqualIgnoringCase(s, t) == toLowerCase(s) = toLowerCase(t)

\* C7: in every reachable state no two stored users have usernames that are
\* equal ignoring case, and no two have emails that are equal ignoring case.
C7_UniqueIgnoringCase ==
  \A j \in DOMAIN users, k \in DOMAIN users :
    j # k => /\ ~EqualIgnoringCase(users[j].username, users[k].username)
             /\ ~EqualIgnoringCase(users[j].email, users[k].email)

UsernameTaken(body) ==
  \E k \in DOMAIN users : EqualIgnoringCase(users[k].username, body.username)

EmailTaken(body) ==
  \E k \in DOMAIN users : EqualIgnoringCase(users[k].email, body.email)

NoUserCreated == users' = users /\ currentUserId' = currentUserId

\* C8 as stated: every registration whose username is taken (ignoring case)
\* is answered 400 "Username already taken", every registration whose email is
\* taken is answered 400, and neither creates a user nor advances the counter.
C8_DuplicateRejected ==
  [][\A body \in RegisterBodies :
       (last'.op = "register" /\ Register(body)) =>
         /\ ("username" \in DOMAIN body /\ UsernameTaken(body)) =>
              /\ last'.code = 400
              /\ last'.msg = "Username already taken"
              /\ NoUserCreated
         /\ ("email" \in DOMAIN body /\ EmailTaken(body)) =>
              last'.code = 400 /\ NoUserCreated]_vars

\* C8 amended: the same, for the registrations whose body passes
\* insertUserSchema (a body the schema refuses is answered 400 with the
\* schema's own message before the username is looked up).
C8_ValidDuplicateRejected ==
  [][\A body \in RegisterBodies :
       (last'.op = "register" /\ insertUserValid(body) /\ Register(body)) =>
         /\ UsernameTaken(body) =>
              /\ last'.code = 400
              /\ last'.msg = "Username already taken"
              /\ NoUserCreated
         /\ EmailTaken(body) => last'.code = 400 /\ NoUserCreated]_vars

\* A registration was just refused for its username ("A" or "a") while the
\* only user stored is named "A".
C8_Witness ==
  /\ last.op = "register" /\ last.code = 400
  /\ last.msg = "Username already taken"
  /\ \E k \in DOMAIN users : users[k].username = <<65>>
  /\ currentUserId = 2

\* ---------------------------------------- claims on the owned resources

\* C11: for a non-admin caller, a profile update of another user's id, an
\* update or a delete of a service whose assistantId is not the caller, a
\* message sent with another senderId and a mark-read of a message whose
\* receiverId is not the caller are answered 403 and change nothing; none of
\* them succeeds.  The caller's id is the id of req.user.
C11_SelfOrAdmin ==
  [][/\ last'.op = "patchUser" =>
          \A caller \in Callers, userId \in {1, 2},
             body \in SelfPatchUserBodies :
            (/\ isAuthenticated(caller) /\ notAdmin(caller)
             /\ userId # currentUser(caller).id
             /\ PatchUser(caller, userId, body)) =>
              last'.code = 403 /\ StoreUnchanged
     /\ last'.op \in {"patchService", "deleteService"} =>
          \A caller \in Callers, serviceId \in 1 .. MaxServices :
            (/\ isAuthenticated(caller) /\ notAdmin(caller)
             /\ serviceId \in DOMAIN services
             /\ services[serviceId].assistantId # currentUser(caller).id
             /\ \/ PatchService(caller, serviceId, [categoryId |-> 2])
                \/ DeleteService(caller, serviceId)) =>
              last'.code = 403 /\ StoreUnchanged
     /\ last'.op = "postMessage" =>
          \A caller \in Callers, body \in SelfMessageBodies :
            (/\ isAuthenticated(caller) /\ notAdmin(caller)
             /\ insertMessageValid(body)
             /\ body.senderId # currentUser(caller).id
             /\ PostMessage(caller, body, 0)) =>
              last'.code = 403 /\ StoreUnchanged
     /\ last'.op = "markRead" =>
          \A caller \in Callers, messageId \in 1 .. MaxCreated :
            (/\ isAuthenticated(caller) /\ notAdmin(caller)
             /\ messageId \in DOMAIN messages
             /\ messages[messageId].receiverId # currentUser(caller).id
             /\ MarkRead(caller, messageId)) =>
              last'.code = 403 /\ StoreUnchanged]_vars

\* ------------------------------------------------- claims on creation

\* C12: POST /api/services stores a service only if the caller's role is
\* assistant or admin and, for a caller who is no admin, the service's
\* assistantId is the caller's id.
C12_ServiceCreationGuard ==
  [][services' # services =>
       /\ last'.op = "postService"
       /\ DOMAIN services' = DOMAIN services \cup {currentServiceId}
       /\ \A k \in DOMAIN services : services'[k] = services[k]
       /\ \A caller \in Callers, body \in CreationServiceBodies :
            PostService(caller, body) =>
              /\ isAuthenticated(caller)
              /\ Text(currentUser(caller), "role") \in {"assistant", "admin"}
              /\ notAdmin(caller) =>
                   services'[currentServiceId].assistantId =
                     currentUser(caller).id]_vars

\* A service in the name of user 1 has just been created.
C12_Witness ==
  /\ last.op = "postService" /\ last.code = 201
  /\ \E k \in DOMAIN services : services[k].assistantId = 1

\* C13: POST /api/bookings stores a booking only if its clientId is the
\* caller's id or the caller is admin, its service exists, and its assistantId
\* is a stored user whose role is assistant.
C13_BookingCreationGuard ==
  [][bookings' # bookings =>
       /\ last'.op = "postBooking"
       /\ DOMAIN bookings' = DOMAIN bookings \cup {currentBookingId}
       /\ \A k \in DOMAIN bookings : bookings'[k] = bookings[k]
       /\ \A caller \in Callers, body \in CreationBookingBodies :
            PostBooking(caller, body) =>
              LET booking == bookings'[currentBookingId] IN
              /\ isAuthenticated(caller)
              /\ \/ booking.clientId = currentUser(caller).id
                 \/ Text(currentUser(caller), "role") = "admin"
              /\ booking.serviceId \in DOMAIN services
              /\ booking.assistantId \in DOMAIN users
              /\ Text(users[booking.assistantId], "role") = "assistant"]_vars

\* The client has just booked the assistant.
C13_Witness ==
  /\ last.op = "postBooking" /\ last.code = 201
  /\ \E k \in DOMAIN bookings :
       bookings[k].clientId = 2 /\ bookings[k].assistantId = 1

\* ------------------------------------------------- claims on the messages

\* message.isRead is true (a message stored without the field is unread).
IsRead(message) == "isRead" \in DOMAIN message /\ message.isRead = TRUE

\* C14: a message just created is unread, a message becomes read only in a
\* mark-read request answered 200, and a read message stays read.
C14_ReadOnlyByMarkRead ==
  [][\A id \in DOMAIN messages' :
       IF id \in DOMAIN messages
         THEN /\ (IsRead(messages'[id]) /\ ~IsRead(messages[id])) =>
                   last'.op = "markRead" /\ last'.code = 200
              /\ IsRead(messages[id]) => IsRead(messages'[id])
         ELSE ~IsRead(messages'[id])]_vars

\* -------------------------------------------- claims on the nearby search

\* C15: for every center and radius, getNearbyAssistants returns each user
\* that has role assistant, a location and a distance from the center of at
\* most the radius, once, and no other user, in non-decreasing order of the
\* distance from the center.
C15_NearbyExact ==
  \A location \in NearbyCenters, radius \in NearbyRadii \cup {10} :
    LET result == getNearbyAssistants(location, radius)
        expected == {k \in DOMAIN users :
                       /\ Text(users[k], "role") = "assistant"
                       /\ hasLocation(users[k])
                       /\ distanceFrom(location, users[k]) <= radius}
    IN /\ {result[i].id : i \in DOMAIN result} = expected
       /\ Len(result) = Cardinality(expected)
       /\ \A i \in DOMAIN result : result[i] = users[result[i].id]
       /\ \A i \in DOMAIN result, j \in DOMAIN result :
            i < j => distanceFrom(location, result[i])
                       <= distanceFrom(location, result[j])

\* A search has just returned two assistants, the one registered later
\* first, and left out an assistant that has a location.
C15_Witness ==
  /\ last.op = "nearby" /\ last.code = 200
  /\ Len(last.json) = 2
  /\ last.json[1].id > last.json[2].id
  /\ \E k \in DOMAIN users :
       /\ Text(users[k], "role") = "assistant" /\ hasLocation(users[k])
       /\ \A i \in DOMAIN last.json : last.json[i].id # k

\* -------------------------------------------- claims on the conversations

\* C16: for all users A and B, getMessagesBetweenUsers(A, B) returns each
\* stored message sent by A to B or by B to A, once, and no message whose
\* sender or receiver is a third user, in non-decreasing order of createdAt.
C16_ConversationExact ==
  \A A \in {1, 2, 3}, B \in {1, 2, 3} :
    LET result == getMessagesBetweenUsers(A, B)
        expected == {k \in DOMAIN messages :
                       \/ /\ messages[k].senderId = A
                          /\ messages[k].receiverId = B
                       \/ /\ messages[k].senderId = B
                          /\ messages[k].receiverId = A}
    IN /\ {result[i].id : i \in DOMAIN result} = expected
       /\ Len(result) = Cardinality(expected)
       /\ \A i \in DOMAIN result :
            /\ result[i] = messages[result[i].id]
            /\ {result[i].senderId, result[i].receiverId} \subseteq {A, B}
       /\ \A i \in DOMAIN result, j \in DOMAIN result :
            i < j => result[i].createdAt <= result[j].createdAt

\* A conversation of two messages, one in each direction, has just been
\* read, the message stored second created first, beside a message with a
\* third user.
C16_Witness ==
  /\ last.op = "getMessages" /\ last.code = 200
  /\ "json" \in DOMAIN last
  /\ Len(last.json) = 2
  /\ last.json[1].id > last.json[2].id
  /\ last.json[1].senderId = last.json[2].receiverId
  /\ last.json[1].createdAt < last.json[2].createdAt

\* -------------------------------------------- claims on the user records

\* C17: the body of a response of current-user, register, login, get user
\* and update user has no password field, and no record of the list
\* nearby-assistants answers with has one.
C17_NoPasswordInBody ==
  "json" \in DOMAIN last =>
    /\ last.op \in {"me", "register", "login", "getUser", "patchUser"} =>
         "password" \notin DOMAIN last.json
    /\ last.op = "nearby" =>
         \A i \in DOMAIN last.json : "password" \notin DOMAIN last.json[i]

\* A profile update has just been answered with the record of a user whose
\* stored record holds a password, while two users are registered.
C17_Witness ==
  /\ last.op = "patchUser"
  /\ last.code = 200
  /\ currentUserId > 2
  /\ \E k \in DOMAIN users :
       /\ users[k].password = <<104, 117, 110, 116, 101, 114>>
       /\ last.json = Omit(users[k], {"password"})

\* ------------------------------------------------ claims on rejections

\* C18: a request answered 400, 401, 403 or 404 leaves the six collections
\* and the six id counters as they were before it.
C18_RejectionChangesNothing ==
  [][last'.code \in {400, 401, 403, 404} => StoreUnchanged]_vars

\* A review of a booking that is not completed has just been refused with
\* 400, while no review is stored.
C18_Witness ==
  /\ last.op = "postReview"
  /\ last.code = 400
  /\ last.msg = "Cannot review incomplete bookings"
  /\ 1 \in DOMAIN bookings
  /\ reviews = Empty

\* ------------------------------------------------- claims on the updates

\* The Map `after` is the Map `before` with the fields of `body` written
\* over those of the record under `id`, its other fields and every other
\* record as they were.
Merged(before, after, id, body) ==
  /\ DOMAIN after = DOMAIN before
  /\ DOMAIN after[id] = DOMAIN before[id] \cup DOMAIN body
  /\ \A f \in DOMAIN body : after[id][f] = body[f]
  /\ \A f \in DOMAIN before[id] \ DOMAIN body : after[id][f] = before[id][f]
  /\ \A k \in DOMAIN before \ {id} : after[k] = before[k]

C20_CompletedByAssistantOrAdmin ==
  [][\A b \in DOMAIN bookings' :
       /\ Text(bookings'[b], "status") = "completed"
       /\ \/ b \notin DOMAIN bookings
          \/ Text(bookings[b], "status") # "completed"
       => /\ last'.op = "patchBooking"
          /\ last'.code = 200
          /\ b \in DOMAIN bookings
          /\ \E caller \in Callers :
               /\ PatchBooking(caller, b, [status |-> "completed"])
               /\ \/ isAdmin(caller)
                  \/ currentUser(caller).id = Num(bookings[b], "assistantId")
    ]_vars

\* ------------------------------------------------- claims on the roles

\* C21: a profile update made by a caller who is no admin leaves every
\* user's role as it was before the request.
C21_RoleUnchangedByNonAdmin ==
  [][last'.op = "patchUser" =>
       \A caller \in Callers, userId \in {1, 2},
          body \in {[role |-> "assistant"], [role |-> "client"], [id |-> 1]} :
         PatchUser(caller, userId, body) /\ ~isAdmin(caller) =>
           \A k \in DOMAIN users :
             /\ k \in DOMAIN users'
             /\ Text(users'[k], "role") = Text(users[k], "role")]_vars

\* ---------------------------------------- claims on concurrent reviews

====
